---- MODULE Spec2Model ----
(***************************************************************************)
(* A model of the matrix-backed graph store of src/src/graph/graph.c.      *)
(*                                                                         *)
(* The graph structure is the record g; every function of graph.c is an    *)
(* operator from a graph (and the call's arguments) to the graph the call  *)
(* leaves behind.  A boolean sparse matrix is a record of its two          *)
(* dimensions and the set e of its stored entries <<row, col>>; the        *)
(* matrix-library calls graph.c makes are operators on such records, with  *)
(* the library's rule that a call given an index or a dimension that does  *)
(* not fit returns an error code and changes nothing (graph.c drops most   *)
(* of these codes).                                                        *)
(***************************************************************************)
EXTENDS Integers, Sequences, FiniteSets, TLC

VARIABLES g,            \* the Graph structure
          nextUid,      \* payloads handed out so far (the caller fills a node through the iterator)
          edges,        \* reference: the edges that exist, <<payload of src, payload of dest, relation>>
          synced,       \* reference: the matrices whose accessor ran since node_count last changed
          last,         \* the call that returned last, with its arguments
          pc,           \* where each reader thread is in _Graph_ResizeMatrix
          seen,         \* its local n_rows
          mutex,        \* g->_mutex: 0, or the thread that holds it
          inResize,     \* the threads inside GxB_Matrix_resize
          resizeCalls   \* the threads that called GxB_Matrix_resize, in order

vars == <<g, nextUid, edges, synced, last, pc, seen, mutex, inResize, resizeCalls>>

(* ------------------------------ bounds --------------------------------- *)
\* Slots per node block (graph.h's NODEBLOCK_CAP, scaled down).
NODEBLOCK_CAP == 2
\* Largest size hint given to Graph_New.
MaxHint == 3
\* Spec, every operation of the API: largest node_count, nodes created over a
\* run, relation matrices, label matrices, edges in existence at once.
ApiNodes == 2
ApiCreated == 3
ApiRelations == 1
ApiLabels == 1
ApiEdges == 1
\* SpecEdges, node deletion under edges: the same, there being no labels.
EdgeNodes == 4
EdgeCreated == 4
EdgeRelations == 1
EdgeEdges == 2
\* SpecLabels, node deletion under labels: the same, there being no edges.
LabNodes == 4
LabCreated == 5
LabLabels == 2
\* SpecTyped, edge deletion among several edges and relations: the same.
TypedNodes == 2
TypedCreated == 2
TypedRelations == 2
TypedLabels == 1
TypedEdges == 3
\* Largest n of the two further Graph_CreateNodes(n) calls C15 tries in each state.
GrowBatch == 4
\* SpecFrame, labelled nodes with edges and their deletion: the same.
FrameNodes == 4
FrameCreated == 4
FrameRelations == 1
FrameLabels == 1
FrameEdges == 1
\* SpecMisuse, calls outside their preconditions: the same, and the longest
\* id list that is not strictly ascending.
MisuseNodes == 3
MisuseCreated == 3
MisuseRelations == 1
MisuseEdges == 1
MaxBad == 2
\* SpecScenario, one Graph_New, Graph_CreateNodes, Graph_ConnectNodes and
\* Graph_DeleteNodes in a row: the size hint and the most nodes created.
ScenarioHint == 16
ScenarioNodes == 5
\* Nodes created by one Graph_CreateNodes; triples given to one Graph_ConnectNodes.
MaxBatch == 2
MaxTriples == 2
\* SpecConc: reader threads racing through one accessor, and the largest
\* node_count they find.
Readers == 3
ConcNodes == 3

(* ----------------------------- sentinels ------------------------------- *)
GRAPH_NO_LABEL == -1
GRAPH_NO_RELATION == -1

MAX(a, b) == IF a > b THEN a ELSE b

(* ------------------------- the matrix library -------------------------- *)
GrB_Matrix_new(nr, nc) == [nrows |-> nr, ncols |-> nc, e |-> {}]

GrB_Vector_new(n) == [size |-> n, e |-> {}]

\* Entries outside the new dimensions are dropped, the others kept.
GxB_Matrix_resize(M, nr, nc) ==
    [nrows |-> nr, ncols |-> nc,
     e |-> {p \in M.e : p[1] < nr /\ p[2] < nc}]

\* GrB_INVALID_INDEX, and no change, when the position is outside M.
GrB_Matrix_setElement_BOOL(M, i, j) ==
    IF i \in 0..(M.nrows - 1) /\ j \in 0..(M.ncols - 1)
    THEN [M EXCEPT !.e = @ \cup {<<i, j>>}]
    ELSE M

GrB_Vector_setElement_BOOL(v, i) ==
    IF i \in 0..(v.size - 1) THEN [v EXCEPT !.e = @ \cup {i}] ELSE v

\* graph.c presets the output to false; it stays false when no entry is stored.
GrB_Matrix_extractElement_BOOL(M, i, j) == <<i, j>> \in M.e

\* w = M(:, j), or with the transposing descriptor w = M(j, :).  w is replaced
\* whole; a vector of the wrong size is left as it was.
GrB_Col_extract(w, M, j, tran) ==
    IF tran
    THEN IF w.size = M.ncols /\ j \in 0..(M.nrows - 1)
         THEN [w EXCEPT !.e = {p[2] : p \in {q \in M.e : q[1] = j}}]
         ELSE w
    ELSE IF w.size = M.nrows /\ j \in 0..(M.ncols - 1)
         THEN [w EXCEPT !.e = {p[1] : p \in {q \in M.e : q[2] = j}}]
         ELSE w

\* w<!mask, replace> = M(:, j): the masked positions of w end up empty.
GrB_Col_extract_scmp(w, mask, M, j) ==
    IF w.size = M.nrows /\ mask.size = w.size /\ j \in 0..(M.ncols - 1)
    THEN [w EXCEPT !.e = {p[1] : p \in {q \in M.e : q[2] = j}} \ mask.e]
    ELSE w

\* M(:, j) = u: column j becomes exactly u.
GrB_Col_assign(M, u, j) ==
    IF u.size = M.nrows /\ j \in 0..(M.ncols - 1)
    THEN [M EXCEPT !.e = {p \in @ : p[2] # j} \cup {<<i, j>> : i \in u.e}]
    ELSE M

\* M(i, :) = u: row i becomes exactly u.
GrB_Row_assign(M, u, i) ==
    IF u.size = M.ncols /\ i \in 0..(M.nrows - 1)
    THEN [M EXCEPT !.e = {p \in @ : p[1] # i} \cup {<<i, j>> : j \in u.e}]
    ELSE M

(* ----------------------- graph utility functions ----------------------- *)
GRAPH_NODE_COUNT_TO_BLOCK_COUNT(n) == MAX(1, n \div NODEBLOCK_CAP)

GRAPH_NODE_ID_TO_BLOCK_INDEX(id) == id \div NODEBLOCK_CAP

\* Fault: a _Graph_ResizeMatrix that tests n_rows > node_count, and so never
\* grows a matrix.
_Graph_ResizeMatrix_shrinkOnly(G, m) ==
    IF m.nrows > G.node_count
    THEN [m |-> GxB_Matrix_resize(m, G.node_count, G.node_count), issued |-> TRUE]
    ELSE [m |-> m, issued |-> FALSE]

\* The resize _Graph_ResizeMatrix makes of m in graph G, with no other thread
\* about: the matrix it leaves and whether it called GxB_Matrix_resize.
_Graph_ResizeMatrix(G, m) ==
    IF m.nrows # G.node_count
    THEN [m |-> GxB_Matrix_resize(m, G.node_count, G.node_count), issued |-> TRUE]
    ELSE [m |-> m, issued |-> FALSE]

\* A slot no node was ever stored in.
NoNode == [id |-> -1, uid |-> 0]

\* Fault: a _Graph_ResizeNodes that finds room when total_nodes = node_cap.
_Graph_ResizeNodes_whenOver(G, n) ==
    LET total_nodes == G.node_count + n
        increase_factor == (total_nodes \div G.node_cap) + 2
        block_count == G.block_count * increase_factor
        node_cap == block_count * NODEBLOCK_CAP
    IN  IF total_nodes <= G.node_cap
        THEN G
        ELSE [G EXCEPT !.block_count = block_count,
                       !.node_cap = node_cap,
                       !.nodes = [i \in 0..(block_count * NODEBLOCK_CAP - 1) |->
                                    IF i \in DOMAIN G.nodes THEN G.nodes[i] ELSE NoNode]]

_Graph_ResizeNodes(G, n) ==
    LET total_nodes == G.node_count + n
        increase_factor == (total_nodes \div G.node_cap) + 2
        block_count == G.block_count * increase_factor
        node_cap == block_count * NODEBLOCK_CAP
    IN  IF total_nodes < G.node_cap
        THEN G
        ELSE [G EXCEPT !.block_count = block_count,
                       !.node_cap = node_cap,
                       !.nodes = [i \in 0..(block_count * NODEBLOCK_CAP - 1) |->
                                    IF i \in DOMAIN G.nodes THEN G.nodes[i] ELSE NoNode]]

(* ------------------------------ accessors ------------------------------ *)
\* Each accessor resizes the stored matrix before it returns it: the graph
\* with that done, the matrix being G.adjacency_matrix, G._relations[r + 1]
\* or G._labels[l + 1] of the result.
Graph_GetAdjacencyMatrix(G) ==
    [G EXCEPT !.adjacency_matrix = _Graph_ResizeMatrix(G, @).m]

Graph_GetRelationMatrix(G, relation_idx) ==
    [G EXCEPT !._relations[relation_idx + 1] = _Graph_ResizeMatrix(G, @).m]

Graph_GetLabelMatrix(G, label_idx) ==
    [G EXCEPT !._labels[label_idx + 1] = _Graph_ResizeMatrix(G, @).m]

(* ------------------------------ Graph API ------------------------------ *)
Graph_New(n) ==
    LET blocks == GRAPH_NODE_COUNT_TO_BLOCK_COUNT(n)
        cap == GRAPH_NODE_COUNT_TO_BLOCK_COUNT(n) * NODEBLOCK_CAP
    IN  [node_cap |-> cap,
         node_count |-> 0,
         block_count |-> blocks,
         nodes |-> [i \in 0..(blocks * NODEBLOCK_CAP - 1) |-> NoNode],
         _relations |-> << >>,
         _labels |-> << >>,
         adjacency_matrix |-> GrB_Matrix_new(cap, cap)]

Graph_AddRelationMatrix(G) ==
    [G EXCEPT !._relations = Append(@, GrB_Matrix_new(G.node_cap, G.node_cap))]

Graph_AddLabelMatrix(G) ==
    [G EXCEPT !._labels = Append(@, GrB_Matrix_new(G.node_cap, G.node_cap))]

\* The label loop of Graph_CreateNodes from index idx (1-based) on.
RECURSIVE CreateNodes_labels(_, _, _, _)
CreateNodes_labels(G, labels, idx, node_id) ==
    IF idx > Len(labels)
    THEN G
    ELSE LET l == labels[idx]
             G1 == IF l # GRAPH_NO_LABEL
                   THEN LET Ga == Graph_GetLabelMatrix(G, l)
                        IN  [Ga EXCEPT !._labels[l + 1] =
                                GrB_Matrix_setElement_BOOL(@, node_id, node_id)]
                   ELSE G
         IN  CreateNodes_labels(G1, labels, idx + 1, node_id + 1)

\* Fault: a Graph_CreateNodes without the resize of the adjacency matrix.
Graph_CreateNodes_noResize(G, n, hasLabels, labels, uid0) ==
    LET G1 == _Graph_ResizeNodes(G, n)
        node_id == G1.node_count
        G2 == [G1 EXCEPT !.node_count = @ + n,
                         !.nodes = [i \in DOMAIN @ |->
                                      IF i >= node_id /\ i < node_id + n
                                      THEN [id |-> i, uid |-> uid0 + (i - node_id)]
                                      ELSE @[i]]]
    IN  IF hasLabels THEN CreateNodes_labels(G2, labels, 1, node_id) ELSE G2

\* labels is a sequence of n label indices, or << >> with hasLabels FALSE for
\* the NULL pointer.  uid0 is the first payload the caller writes through the
\* returned iterator.
Graph_CreateNodes(G, n, hasLabels, labels, uid0) ==
    LET G1 == _Graph_ResizeNodes(G, n)
        node_id == G1.node_count
        G2 == [G1 EXCEPT !.node_count = @ + n,
                         !.nodes = [i \in DOMAIN @ |->
                                      IF i >= node_id /\ i < node_id + n
                                      THEN [id |-> i, uid |-> uid0 + (i - node_id)]
                                      ELSE @[i]]]
        G3 == [G2 EXCEPT !.adjacency_matrix = _Graph_ResizeMatrix(G2, @).m]
    IN  IF hasLabels THEN CreateNodes_labels(G3, labels, 1, node_id) ELSE G3

\* The triples of Graph_ConnectNodes from index i (1-based) on; the adjacency
\* handle was taken, and resized, before the loop.
RECURSIVE ConnectNodes_loop(_, _, _)
ConnectNodes_loop(G, connections, i) ==
    IF i > Len(connections)
    THEN G
    ELSE LET src_id == connections[i][1]
             dest_id == connections[i][2]
             r == connections[i][3]
             G1 == [G EXCEPT !.adjacency_matrix =
                       GrB_Matrix_setElement_BOOL(@, dest_id, src_id)]
             G2 == IF r # GRAPH_NO_RELATION
                   THEN LET Ga == Graph_GetRelationMatrix(G1, r)
                        IN  [Ga EXCEPT !._relations[r + 1] =
                                GrB_Matrix_setElement_BOOL(@, dest_id, src_id)]
                   ELSE G1
         IN  ConnectNodes_loop(G2, connections, i + 1)

Graph_ConnectNodes(G, connections) ==
    ConnectNodes_loop(Graph_GetAdjacencyMatrix(G), connections, 1)

\* Whether every assertion a Graph_ConnectNodes call reaches holds: the one
\* of Graph_GetRelationMatrix, relation_idx < relation_count, for each typed
\* triple.  (The codes GrB_Matrix_setElement_BOOL returns are not looked at.)
ConnectNodes_asserts(G, connections) ==
    \A i \in 1..Len(connections) :
        connections[i][3] # GRAPH_NO_RELATION => connections[i][3] < Len(G._relations)

\* Graph_GetNode returns the slot of id, or NULL when the slot's block was
\* never allocated; it writes the id into the slot it returns.
Graph_GetNode_isNull(G, id) == GRAPH_NODE_ID_TO_BLOCK_INDEX(id) >= G.block_count

Graph_GetNode(G, id) ==
    IF Graph_GetNode_isNull(G, id) THEN G ELSE [G EXCEPT !.nodes[id].id = id]

\* Fault: a migration that rewrites the id of src and copies nothing to dest.
_Graph_NodeBlockMigrateNode_idOnly(G, src, dest) ==
    LET G1 == Graph_GetNode(G, src)
    IN  [G1 EXCEPT !.nodes[src].id = dest]

_Graph_NodeBlockMigrateNode(G, src, dest) ==
    LET G1 == Graph_GetNode(G, src)
        G2 == [G1 EXCEPT !.nodes[src].id = dest]
    IN  [G2 EXCEPT !.nodes[dest] = G2.nodes[src]]

\* Fault: a migration whose first step empties every column of the matrix,
\* not column dest alone.
MigrateRowCol_matrix_clearAll(M, src, dest, row, col, zero) ==
    LET M1 == [M EXCEPT !.e = {}]
        row1 == GrB_Col_extract(row, M1, src, TRUE)
        M2 == GrB_Row_assign(M1, row1, dest)
        col1 == GrB_Col_extract(col, M2, src, FALSE)
        M3 == GrB_Col_assign(M2, col1, dest)
    IN  [M |-> M3, row |-> row1, col |-> col1]

\* Fault: a migration that moves the column of src and leaves its row behind.
MigrateRowCol_matrix_colOnly(M, src, dest, row, col, zero) ==
    LET M1 == GrB_Col_assign(M, zero, dest)
        col1 == GrB_Col_extract(col, M1, src, FALSE)
        M3 == GrB_Col_assign(M1, col1, dest)
    IN  [M |-> M3, row |-> row, col |-> col1]

\* The three steps _Graph_MigrateRowCol applies to one matrix; the vectors row
\* and col are shared by all matrices of one call, so they are handed on.
MigrateRowCol_matrix(M, src, dest, row, col, zero) ==
    LET M1 == GrB_Col_assign(M, zero, dest)
        row1 == GrB_Col_extract(row, M1, src, TRUE)
        M2 == GrB_Row_assign(M1, row1, dest)
        col1 == GrB_Col_extract(col, M2, src, FALSE)
        M3 == GrB_Col_assign(M2, col1, dest)
    IN  [M |-> M3, row |-> row1, col |-> col1]

RECURSIVE MigrateRowCol_relations(_, _, _, _, _, _, _)
MigrateRowCol_relations(G, src, dest, row, col, zero, i) ==
    IF i >= Len(G._relations)
    THEN G
    ELSE LET Ga == Graph_GetRelationMatrix(G, i)
             res == MigrateRowCol_matrix(Ga._relations[i + 1], src, dest, row, col, zero)
         IN  MigrateRowCol_relations([Ga EXCEPT !._relations[i + 1] = res.M],
                                     src, dest, res.row, res.col, zero, i + 1)

_Graph_MigrateRowCol(G, src, dest) ==
    LET nrows == G.node_count
        Ga == Graph_GetAdjacencyMatrix(G)
        row == GrB_Vector_new(nrows)
        col == GrB_Vector_new(nrows)
        zero == GrB_Vector_new(nrows)
        res == MigrateRowCol_matrix(Ga.adjacency_matrix, src, dest, row, col, zero)
    IN  MigrateRowCol_relations([Ga EXCEPT !.adjacency_matrix = res.M],
                                src, dest, res.row, res.col, zero, 0)

\* Fault: a clear that assigns an empty vector to the whole column src.
_Graph_ClearMatrixEntry_column(G, M, src, dest) ==
    GrB_Col_assign(M, GrB_Vector_new(G.node_count), src)

_Graph_ClearMatrixEntry(G, M, src, dest) ==
    LET nrows == G.node_count
        mask == GrB_Vector_setElement_BOOL(GrB_Vector_new(nrows), dest)
        col == GrB_Col_extract_scmp(GrB_Vector_new(nrows), mask, M, src)
    IN  GrB_Col_assign(M, col, src)

RECURSIVE DeleteEdges_relations(_, _, _, _)
DeleteEdges_relations(G, src_id, dest_id, i) ==
    IF i >= Len(G._relations)
    THEN G
    ELSE LET Ga == Graph_GetRelationMatrix(G, i)
             connected == GrB_Matrix_extractElement_BOOL(Ga._relations[i + 1], dest_id, src_id)
             G1 == IF connected
                   THEN [Ga EXCEPT !._relations[i + 1] =
                            _Graph_ClearMatrixEntry(Ga, @, src_id, dest_id)]
                   ELSE Ga
         IN  DeleteEdges_relations(G1, src_id, dest_id, i + 1)

_Graph_DeleteEdges(G, src_id, dest_id) ==
    LET Ga == Graph_GetAdjacencyMatrix(G)
        G1 == [Ga EXCEPT !.adjacency_matrix = _Graph_ClearMatrixEntry(Ga, @, src_id, dest_id)]
    IN  DeleteEdges_relations(G1, src_id, dest_id, 0)

\* The scan of _Graph_DeleteTypedEdges for another relation holding the edge:
\* the graph after the accessors it called, and the value of connected at the
\* end of the loop.
RECURSIVE DeleteTypedEdges_scan(_, _, _, _)
DeleteTypedEdges_scan(G, src_id, dest_id, i) ==
    IF i >= Len(G._relations)
    THEN [G |-> G, connected |-> FALSE]
    ELSE LET Ga == Graph_GetRelationMatrix(G, i)
         IN  IF GrB_Matrix_extractElement_BOOL(Ga._relations[i + 1], dest_id, src_id)
             THEN [G |-> Ga, connected |-> TRUE]
             ELSE DeleteTypedEdges_scan(Ga, src_id, dest_id, i + 1)

\* Fault: a typed delete that never clears the adjacency entry.
_Graph_DeleteTypedEdges_keepAdjacency(G, src_id, dest_id, relation) ==
    LET Ga == Graph_GetRelationMatrix(G, relation)
    IN  IF ~GrB_Matrix_extractElement_BOOL(Ga._relations[relation + 1], dest_id, src_id)
        THEN Ga
        ELSE [Ga EXCEPT !._relations[relation + 1] =
                 _Graph_ClearMatrixEntry(Ga, @, src_id, dest_id)]

_Graph_DeleteTypedEdges(G, src_id, dest_id, relation) ==
    LET Ga == Graph_GetRelationMatrix(G, relation)
    IN  IF ~GrB_Matrix_extractElement_BOOL(Ga._relations[relation + 1], dest_id, src_id)
        THEN Ga
        ELSE LET G1 == [Ga EXCEPT !._relations[relation + 1] =
                           _Graph_ClearMatrixEntry(Ga, @, src_id, dest_id)]
                 scan == DeleteTypedEdges_scan(G1, src_id, dest_id, 0)
             IN  IF ~scan.connected
                 THEN LET Gb == Graph_GetAdjacencyMatrix(scan.G)
                      IN  [Gb EXCEPT !.adjacency_matrix =
                              _Graph_ClearMatrixEntry(Gb, @, src_id, dest_id)]
                 ELSE scan.G

Graph_DeleteEdge(G, src_id, dest_id, relation) ==
    LET Ga == Graph_GetAdjacencyMatrix(G)
    IN  IF ~GrB_Matrix_extractElement_BOOL(Ga.adjacency_matrix, dest_id, src_id)
        THEN Ga
        ELSE IF relation = GRAPH_NO_RELATION
             THEN _Graph_DeleteEdges(Ga, src_id, dest_id)
             ELSE _Graph_DeleteTypedEdges(Ga, src_id, dest_id, relation)

RECURSIVE LabelNodes_loop(_, _, _, _)
LabelNodes_loop(G, node_id, end_node_id, label) ==
    IF node_id > end_node_id
    THEN G
    ELSE LabelNodes_loop([G EXCEPT !._labels[label + 1] =
                             GrB_Matrix_setElement_BOOL(@, node_id, node_id)],
                         node_id + 1, end_node_id, label)

Graph_LabelNodes(G, start_node_id, end_node_id, label) ==
    LabelNodes_loop(Graph_GetLabelMatrix(G, label), start_node_id, end_node_id, label)

\* Fault: a label loop that sets the donor's labels at the destination and
\* clears none of the deleted node's.
RECURSIVE replace_deleted_node_labels_setOnly(_, _, _, _, _)
replace_deleted_node_labels_setOnly(G, zero, replacement, to_delete, i) ==
    IF i >= Len(G._labels)
    THEN G
    ELSE LET Ga == Graph_GetLabelMatrix(G, i)
             M == Ga._labels[i + 1]
             src_has_label == GrB_Matrix_extractElement_BOOL(M, replacement, replacement)
             dest_has_label == GrB_Matrix_extractElement_BOOL(M, to_delete, to_delete)
             M1 == IF ~dest_has_label /\ src_has_label
                   THEN GrB_Matrix_setElement_BOOL(M, to_delete, to_delete)
                   ELSE M
         IN  replace_deleted_node_labels_setOnly([Ga EXCEPT !._labels[i + 1] = M1],
                                                 zero, replacement, to_delete, i + 1)

\* The label loop of _replace_deleted_node from label i on.
RECURSIVE replace_deleted_node_labels(_, _, _, _, _)
replace_deleted_node_labels(G, zero, replacement, to_delete, i) ==
    IF i >= Len(G._labels)
    THEN G
    ELSE LET Ga == Graph_GetLabelMatrix(G, i)
             M == Ga._labels[i + 1]
             src_has_label == GrB_Matrix_extractElement_BOOL(M, replacement, replacement)
             dest_has_label == GrB_Matrix_extractElement_BOOL(M, to_delete, to_delete)
             M1 == IF dest_has_label /\ ~src_has_label
                   THEN GrB_Col_assign(M, zero, to_delete)
                   ELSE IF ~dest_has_label /\ src_has_label
                        THEN GrB_Matrix_setElement_BOOL(M, to_delete, to_delete)
                        ELSE M
         IN  replace_deleted_node_labels([Ga EXCEPT !._labels[i + 1] = M1],
                                         zero, replacement, to_delete, i + 1)

_replace_deleted_node(G, zero, replacement, to_delete) ==
    LET G1 == replace_deleted_node_labels(G, zero, replacement, to_delete, 0)
        G2 == _Graph_MigrateRowCol(G1, replacement, to_delete)
    IN  _Graph_NodeBlockMigrateNode(G2, replacement, to_delete)

\* IDs[i] of the C array (0-based); a read outside the array yields no id.
IDsAt(IDs, i) == IF i \in 0..(Len(IDs) - 1) THEN IDs[i + 1] ELSE -1

\* Fault: an inner loop that takes the highest id as donor whether or not it
\* is itself to be deleted.
DeleteNodes_skip_none(IDs, S) == S

\* The inner loop of Graph_DeleteNodes: step the donor below the ids that are
\* themselves to be deleted.  S holds the loop's local variables.
RECURSIVE DeleteNodes_skip(_, _)
DeleteNodes_skip(IDs, S) ==
    IF S.id_to_save = S.largest_delete
    THEN DeleteNodes_skip(IDs,
            [S EXCEPT !.id_to_save = @ - 1,
                      !.largest_delete_idx = @ - 1,
                      !.largest_delete = IDsAt(IDs, S.largest_delete_idx - 1),
                      !.reads = @ \cup {S.largest_delete_idx - 1}])
    ELSE S

\* The outer loop of Graph_DeleteNodes; moves records each replacement made,
\* <<donor, hole>>, in order, and reads the indices at which IDs was read.
RECURSIVE DeleteNodes_loop(_, _, _, _, _)
DeleteNodes_loop(G, IDs, zero, post_delete_count, S) ==
    IF ~(IDsAt(IDs, S.id_to_replace_idx) < post_delete_count)
    THEN [G |-> G, S |-> [S EXCEPT !.reads = @ \cup {S.id_to_replace_idx}]]
    ELSE LET S1 == DeleteNodes_skip(IDs, [S EXCEPT !.reads = @ \cup {S.id_to_replace_idx}])
             id_to_replace == IDsAt(IDs, S.id_to_replace_idx)
             G1 == _replace_deleted_node(G, zero, S1.id_to_save, id_to_replace)
             S2 == [S1 EXCEPT !.id_to_replace_idx = @ + 1,
                              !.moves = Append(@, <<S1.id_to_save, id_to_replace>>)]
         IN  IF S2.id_to_replace_idx >= Len(IDs)
             THEN [G |-> G1, S |-> S2]
             ELSE DeleteNodes_loop(G1, IDs, zero, post_delete_count,
                                   [S2 EXCEPT !.id_to_save = @ - 1])

\* Fault: a Graph_DeleteNodes that takes one node off node_count however many
\* ids it was given.
DeleteNodes_run_countOne(G, IDs) ==
    LET IDCount == Len(IDs)
        post_delete_count == G.node_count - IDCount
        S0 == [id_to_save |-> G.node_count - 1,
               largest_delete_idx |-> IDCount - 1,
               largest_delete |-> IDsAt(IDs, IDCount - 1),
               id_to_replace_idx |-> 0,
               moves |-> << >>,
               reads |-> {IDCount - 1}]
        zero == GrB_Vector_new(G.node_count)
        res == DeleteNodes_loop(G, IDs, zero, post_delete_count, S0)
        G1 == [res.G EXCEPT !.node_count = G.node_count - 1]
    IN  IF IDCount = 0
        THEN [G |-> G, S |-> [S0 EXCEPT !.reads = {}]]
        ELSE [G |-> [G1 EXCEPT !.adjacency_matrix = _Graph_ResizeMatrix(G1, @).m],
              S |-> res.S]

\* The graph Graph_DeleteNodes leaves and the final values of its locals.
DeleteNodes_run(G, IDs) ==
    LET IDCount == Len(IDs)
        post_delete_count == G.node_count - IDCount
        S0 == [id_to_save |-> G.node_count - 1,
               largest_delete_idx |-> IDCount - 1,
               largest_delete |-> IDsAt(IDs, IDCount - 1),
               id_to_replace_idx |-> 0,
               moves |-> << >>,
               reads |-> {IDCount - 1}]
        zero == GrB_Vector_new(G.node_count)
        res == DeleteNodes_loop(G, IDs, zero, post_delete_count, S0)
        G1 == [res.G EXCEPT !.node_count = post_delete_count]
    IN  IF IDCount = 0
        THEN [G |-> G, S |-> [S0 EXCEPT !.reads = {}]]
        ELSE [G |-> [G1 EXCEPT !.adjacency_matrix = _Graph_ResizeMatrix(G1, @).m],
              S |-> res.S]

Graph_DeleteNodes(G, IDs) == DeleteNodes_run(G, IDs).G

\* Whether every assertion a Graph_DeleteNodes call reaches holds: that of
\* Graph_GetNode on each donor, 0 <= id < node_count, and that of
\* _replace_deleted_node on GrB_Col_assign, which succeeds for a column below
\* the matrix dimension node_count.
DeleteNodes_asserts(G, moves) ==
    \A j \in 1..Len(moves) :
        /\ moves[j][1] >= 0 /\ moves[j][1] < G.node_count
        /\ moves[j][2] >= 0 /\ moves[j][2] < G.node_count

(* --------------------------- the state machine -------------------------- *)
ADJ == <<"adj", 0>>
REL(r) == <<"rel", r>>
LAB(l) == <<"lab", l>>

\* The stored matrix a name stands for.
Stored(G, m) ==
    IF m[1] = "adj" THEN G.adjacency_matrix
    ELSE IF m[1] = "rel" THEN G._relations[m[2] + 1]
    ELSE G._labels[m[2] + 1]

NodeIds(G) == 0..(G.node_count - 1)
RelationIds(G) == 0..(Len(G._relations) - 1)
LabelIds(G) == 0..(Len(G._labels) - 1)

Matrices(G) ==
    {ADJ} \cup {REL(r) : r \in RelationIds(G)} \cup {LAB(l) : l \in LabelIds(G)}

\* The ids of S in ascending order.
RECURSIVE Ascending(_)
Ascending(S) ==
    IF S = {} THEN << >>
    ELSE LET m == CHOOSE x \in S : \A y \in S : x <= y
         IN  <<m>> \o Ascending(S \ {m})

SeqsUpTo(S, n) == UNION {[1..k -> S] : k \in 0..n}

Range(f) == {f[i] : i \in DOMAIN f}

\* The arguments explored: what Graph_ConnectNodes and Graph_DeleteNodes may
\* be given in graph G.
Triples(G) == NodeIds(G) \X NodeIds(G) \X ({GRAPH_NO_RELATION} \cup RelationIds(G))
DeleteLists(G) == {Ascending(D) : D \in SUBSET NodeIds(G)}

\* What each specification explores.  ref, acc: whether the reference
\* variables edges and synced are kept.
ApiBounds == [nodes |-> ApiNodes, created |-> ApiCreated, relations |-> ApiRelations,
              labels |-> ApiLabels, edges |-> ApiEdges, ref |-> TRUE, acc |-> FALSE]
AccessBounds == [nodes |-> ApiNodes, created |-> ApiCreated, relations |-> ApiRelations,
                 labels |-> ApiLabels, edges |-> ApiEdges, ref |-> FALSE, acc |-> TRUE]
EdgeBounds == [nodes |-> EdgeNodes, created |-> EdgeCreated, relations |-> EdgeRelations,
               labels |-> 0, edges |-> EdgeEdges, ref |-> FALSE, acc |-> FALSE]
LabelBounds == [nodes |-> LabNodes, created |-> LabCreated, relations |-> 0,
                labels |-> LabLabels, edges |-> 0, ref |-> FALSE, acc |-> FALSE]

TypedBounds == [nodes |-> TypedNodes, created |-> TypedCreated, relations |-> TypedRelations,
                labels |-> TypedLabels, edges |-> TypedEdges, ref |-> FALSE, acc |-> FALSE]

FrameBounds == [nodes |-> FrameNodes, created |-> FrameCreated, relations |-> FrameRelations,
                labels |-> FrameLabels, edges |-> FrameEdges, ref |-> FALSE, acc |-> FALSE]

MisuseBounds == [nodes |-> MisuseNodes, created |-> MisuseCreated,
                 relations |-> MisuseRelations, labels |-> 0, edges |-> MisuseEdges,
                 ref |-> FALSE, acc |-> FALSE]

\* Arguments outside the preconditions: a triple with an end that is no node
\* or a relation that was not added, and an id list of live ids that is not
\* strictly ascending and no longer than node_count.
InvalidTriples(G) ==
    {c \in (0..G.node_count) \X (0..G.node_count)
             \X ({GRAPH_NO_RELATION} \cup 0..Len(G._relations)) :
        c[1] = G.node_count \/ c[2] = G.node_count \/ c[3] = Len(G._relations)}
UnsortedLists(G) ==
    {IDs \in SeqsUpTo(NodeIds(G), MaxBad) :
        /\ Len(IDs) <= G.node_count
        /\ \E i \in 1..(Len(IDs) - 1) : IDs[i] >= IDs[i + 1]}

ReaderIds == 1..Readers

\* No reader thread is about while the graph is being written.
Idle ==
    /\ pc = [t \in ReaderIds |-> "idle"]
    /\ UNCHANGED <<pc, seen, mutex, inResize, resizeCalls>>

Init ==
    /\ \E n \in 1..MaxHint :
         /\ g = Graph_New(n)
         /\ last = [op |-> "new", hint |-> n]
    /\ nextUid = 0
    /\ edges = {}
    /\ synced = {}
    /\ pc = [t \in ReaderIds |-> "idle"]
    /\ seen = [t \in ReaderIds |-> -1]
    /\ mutex = 0
    /\ inResize = {}
    /\ resizeCalls = << >>

AddRelation(B) ==
    /\ Idle
    /\ Len(g._relations) < B.relations
    /\ g' = Graph_AddRelationMatrix(g)
    /\ last' = [op |-> "add_relation"]
    /\ UNCHANGED <<nextUid, edges, synced>>

AddLabel(B) ==
    /\ Idle
    /\ Len(g._labels) < B.labels
    /\ g' = Graph_AddLabelMatrix(g)
    /\ last' = [op |-> "add_label"]
    /\ UNCHANGED <<nextUid, edges, synced>>

CreateNodes(B) ==
    /\ Idle
    /\ \E n \in 0..MaxBatch, hasLabels \in BOOLEAN :
         /\ g.node_count + n <= B.nodes
         /\ nextUid + n <= B.created
         /\ \E labels \in IF hasLabels
                          THEN [1..n -> {GRAPH_NO_LABEL} \cup LabelIds(g)]
                          ELSE {<< >>} :
              /\ g' = Graph_CreateNodes(g, n, hasLabels, labels, nextUid + 1)
              /\ nextUid' = nextUid + n
              /\ synced' = IF ~B.acc \/ n = 0 THEN synced
                           ELSE {LAB(l) : l \in Range(labels) \ {GRAPH_NO_LABEL}}
              /\ last' = [op |-> "create_nodes"]
    /\ UNCHANGED edges

ConnectNodes(B) ==
    /\ Idle
    /\ \E connections \in SeqsUpTo(Triples(g), MaxTriples) :
         LET new == {<<g.nodes[c[1]].uid, g.nodes[c[2]].uid, c[3]>> : c \in Range(connections)}
             typed == {c[3] : c \in Range(connections)} \ {GRAPH_NO_RELATION}
         IN  /\ Cardinality(g.adjacency_matrix.e
                              \cup {<<c[2], c[1]>> : c \in Range(connections)}) <= B.edges
             /\ g' = Graph_ConnectNodes(g, connections)
             /\ edges' = IF B.ref THEN edges \cup new ELSE edges
             /\ synced' = IF B.acc THEN synced \cup {ADJ} \cup {REL(r) : r \in typed}
                          ELSE synced
             /\ last' = [op |-> "connect_nodes"]
    /\ UNCHANGED nextUid

LabelNodes(B) ==
    /\ Idle
    /\ \E start \in NodeIds(g), end \in NodeIds(g), l \in LabelIds(g) :
         /\ start <= end
         /\ g' = Graph_LabelNodes(g, start, end, l)
         /\ synced' = IF B.acc THEN synced \cup {LAB(l)} ELSE synced
         /\ last' = [op |-> "label_nodes"]
    /\ UNCHANGED <<nextUid, edges>>

DeleteEdge(B) ==
    /\ Idle
    /\ \E src \in NodeIds(g), dest \in NodeIds(g),
          rel \in {GRAPH_NO_RELATION} \cup RelationIds(g) :
         /\ g' = Graph_DeleteEdge(g, src, dest, rel)
         /\ edges' = IF B.ref
                     THEN {e \in edges :
                             ~(/\ e[1] = g.nodes[src].uid
                               /\ e[2] = g.nodes[dest].uid
                               /\ (rel = GRAPH_NO_RELATION \/ e[3] = rel))}
                     ELSE edges
         /\ synced' = IF B.acc THEN synced \cup {ADJ} ELSE synced
         /\ last' = [op |-> "delete_edge"]
    /\ UNCHANGED nextUid

DeleteNodes(B) ==
    /\ Idle
    /\ \E IDs \in DeleteLists(g) :
         LET gone == {g.nodes[i].uid : i \in Range(IDs)}
         IN  /\ g' = Graph_DeleteNodes(g, IDs)
             /\ edges' = IF B.ref
                         THEN {e \in edges : e[1] \notin gone /\ e[2] \notin gone}
                         ELSE edges
             /\ synced' = IF B.acc /\ IDs # << >> THEN {} ELSE synced
             /\ last' = [op |-> "delete_nodes",
                         first |-> IDsAt(IDs, 0),
                         moved |-> Len(DeleteNodes_run(g, IDs).S.moves)]
    /\ UNCHANGED nextUid

\* A public accessor call on matrix m, leaving graph G1.
Get(B, m, G1) ==
    /\ g' = G1
    /\ synced' = IF B.acc THEN synced \cup {m} ELSE synced
    /\ last' = [op |-> "get", m |-> m,
                issued |-> _Graph_ResizeMatrix(g, Stored(g, m)).issued,
                was_synced |-> m \in synced]
    /\ UNCHANGED <<nextUid, edges>>

GetAdjacency(B) ==
    /\ Idle
    /\ Get(B, ADJ, Graph_GetAdjacencyMatrix(g))

GetRelation(B) ==
    /\ Idle
    /\ \E r \in RelationIds(g) : Get(B, REL(r), Graph_GetRelationMatrix(g, r))

GetLabel(B) ==
    /\ Idle
    /\ \E l \in LabelIds(g) : Get(B, LAB(l), Graph_GetLabelMatrix(g, l))

\* Every operation of the API, one caller.
Next ==
    \/ AddRelation(ApiBounds)
    \/ AddLabel(ApiBounds)
    \/ CreateNodes(ApiBounds)
    \/ ConnectNodes(ApiBounds)
    \/ LabelNodes(ApiBounds)
    \/ DeleteEdge(ApiBounds)
    \/ DeleteNodes(ApiBounds)
    \/ GetAdjacency(ApiBounds)
    \/ GetRelation(ApiBounds)
    \/ GetLabel(ApiBounds)

Spec == Init /\ [][Next]_vars

\* Nodes, edges and node deletion, on larger graphs.
NextEdges ==
    \/ AddRelation(EdgeBounds)
    \/ CreateNodes(EdgeBounds)
    \/ ConnectNodes(EdgeBounds)
    \/ DeleteNodes(EdgeBounds)

\* Every operation of the API, the accessor calls being followed.
NextAccess ==
    \/ AddRelation(AccessBounds)
    \/ AddLabel(AccessBounds)
    \/ CreateNodes(AccessBounds)
    \/ ConnectNodes(AccessBounds)
    \/ LabelNodes(AccessBounds)
    \/ DeleteEdge(AccessBounds)
    \/ DeleteNodes(AccessBounds)
    \/ GetAdjacency(AccessBounds)
    \/ GetRelation(AccessBounds)
    \/ GetLabel(AccessBounds)

SpecAccess == Init /\ [][NextAccess]_vars

SpecEdges == Init /\ [][NextEdges]_vars

\* Nodes, labels and node deletion, on larger graphs.
NextLabels ==
    \/ AddLabel(LabelBounds)
    \/ CreateNodes(LabelBounds)
    \/ LabelNodes(LabelBounds)
    \/ DeleteNodes(LabelBounds)

SpecLabels == Init /\ [][NextLabels]_vars

\* Edges of several relations, their deletion and that of their nodes.
NextTyped ==
    \/ AddRelation(TypedBounds)
    \/ AddLabel(TypedBounds)
    \/ CreateNodes(TypedBounds)
    \/ ConnectNodes(TypedBounds)
    \/ DeleteEdge(TypedBounds)
    \/ DeleteNodes(TypedBounds)

SpecTyped == Init /\ [][NextTyped]_vars

\* Labelled nodes with edges between them, and their deletion.
NextFrame ==
    \/ AddRelation(FrameBounds)
    \/ AddLabel(FrameBounds)
    \/ CreateNodes(FrameBounds)
    \/ ConnectNodes(FrameBounds)
    \/ DeleteNodes(FrameBounds)

SpecFrame == Init /\ [][NextFrame]_vars

\* A failed assertion ends the process: nothing runs after it.
Abort(op) ==
    /\ pc' = [t \in ReaderIds |-> "aborted"]
    /\ last' = [op |-> "abort", of |-> op]
    /\ UNCHANGED <<g, nextUid, edges, synced, seen, mutex, inResize, resizeCalls>>

\* Graph_ConnectNodes given a triple outside its precondition.
ConnectNodesInvalid(B) ==
    /\ pc = [t \in ReaderIds |-> "idle"]
    /\ \E c \in InvalidTriples(g) :
         IF ~ConnectNodes_asserts(g, <<c>>)
         THEN Abort("connect_nodes")
         ELSE /\ g' = Graph_ConnectNodes(g, <<c>>)
              /\ last' = [op |-> "connect_nodes_invalid"]
              /\ UNCHANGED <<nextUid, edges, synced, pc, seen, mutex, inResize, resizeCalls>>

\* Graph_DeleteNodes given a list that is not strictly ascending; the lists
\* on which the loop would read outside IDs (undefined behaviour) are left out.
DeleteNodesUnsorted(B) ==
    /\ pc = [t \in ReaderIds |-> "idle"]
    /\ \E IDs \in UnsortedLists(g) :
         LET run == DeleteNodes_run(g, IDs)
         IN  /\ run.S.reads \subseteq 0..(Len(IDs) - 1)
             /\ IF ~DeleteNodes_asserts(g, run.S.moves)
                THEN Abort("delete_nodes")
                ELSE /\ g' = run.G
                     /\ last' = [op |-> "delete_nodes_unsorted", changed |-> run.G # g]
                     /\ UNCHANGED <<nextUid, edges, synced, pc, seen, mutex, inResize, resizeCalls>>

\* The API with callers that break its preconditions.
NextMisuse ==
    \/ AddRelation(MisuseBounds)
    \/ CreateNodes(MisuseBounds)
    \/ ConnectNodes(MisuseBounds)
    \/ DeleteNodes(MisuseBounds)
    \/ ConnectNodesInvalid(MisuseBounds)
    \/ DeleteNodesUnsorted(MisuseBounds)

SpecMisuse == Init /\ [][NextMisuse]_vars

(* ------------------------ one compaction, scripted ---------------------- *)
\* Graph_New(ScenarioHint), then one Graph_CreateNodes, one Graph_ConnectNodes
\* of untyped edges and one Graph_DeleteNodes; last keeps the arguments.
ScenarioInit ==
    /\ g = Graph_New(ScenarioHint)
    /\ last = [op |-> "new", hint |-> ScenarioHint]
    /\ nextUid = 0
    /\ edges = {}
    /\ synced = {}
    /\ pc = [t \in ReaderIds |-> "idle"]
    /\ seen = [t \in ReaderIds |-> -1]
    /\ mutex = 0
    /\ inResize = {}
    /\ resizeCalls = << >>

ScenarioCreate ==
    /\ Idle
    /\ last.op = "new"
    /\ \E n \in 1..ScenarioNodes :
         /\ g' = Graph_CreateNodes(g, n, FALSE, << >>, 1)
         /\ nextUid' = n
         /\ last' = [op |-> "scenario_create", n |-> n]
    /\ UNCHANGED <<edges, synced>>

ScenarioConnect ==
    /\ Idle
    /\ last.op = "scenario_create"
    /\ \E connections \in SeqsUpTo(NodeIds(g) \X NodeIds(g) \X {GRAPH_NO_RELATION}, MaxTriples) :
         /\ g' = Graph_ConnectNodes(g, connections)
         /\ last' = [op |-> "scenario_connect", n |-> last.n, connections |-> connections]
    /\ UNCHANGED <<nextUid, edges, synced>>

ScenarioDelete ==
    /\ Idle
    /\ last.op = "scenario_connect"
    /\ \E IDs \in DeleteLists(g) :
         /\ g' = Graph_DeleteNodes(g, IDs)
         /\ last' = [op |-> "scenario_delete", n |-> last.n,
                     connections |-> last.connections, IDs |-> IDs]
    /\ UNCHANGED <<nextUid, edges, synced>>

NextScenario ==
    \/ ScenarioCreate
    \/ ScenarioConnect
    \/ ScenarioDelete

SpecScenario == ScenarioInit /\ [][NextScenario]_vars

(* ----------------- reader threads in _Graph_ResizeMatrix ----------------- *)
\* Graphs the API reaches in which relation 0 has not the dimension
\* node_count: the relation added to an empty graph and n nodes created
\* (the matrix is to grow, or to shrink from node_cap), or two nodes
\* connected and the second deleted (the matrix is to lose an entry).
ConcGraphs ==
    {Graph_CreateNodes(Graph_AddRelationMatrix(Graph_New(h)), n, FALSE, << >>, 1) :
        h \in 1..MaxHint, n \in 0..ConcNodes}
    \cup
    {Graph_DeleteNodes(
        Graph_ConnectNodes(
            Graph_CreateNodes(Graph_AddRelationMatrix(Graph_New(h)), 2, FALSE, << >>, 1),
            <<<<0, 1, 0>>>>),
        <<1>>) : h \in 1..MaxHint}

ConcInit ==
    /\ g \in {G \in ConcGraphs : G._relations[1].nrows # G.node_count}
    /\ nextUid = 0
    /\ edges = {}
    /\ synced = {}
    /\ last = [op |-> "readers"]
    /\ pc = [t \in ReaderIds |-> "idle"]
    /\ seen = [t \in ReaderIds |-> -1]
    /\ mutex = 0
    /\ inResize = {}
    /\ resizeCalls = << >>

\* What GrB_Matrix_nrows may return for relation 0: the stored dimension, or
\* the one being installed while another thread is inside the resize.
RowsRead ==
    {g._relations[1].nrows} \cup (IF inResize = {} THEN {} ELSE {g.node_count})

\* Graph_GetRelationMatrix(g, 0) enters _Graph_ResizeMatrix: the first,
\* unguarded read of n_rows and its test.
Reader_FirstCheck(t) ==
    /\ pc[t] = "idle"
    /\ \E v \in RowsRead :
         /\ seen' = [seen EXCEPT ![t] = v]
         /\ pc' = [pc EXCEPT ![t] = IF v # g.node_count THEN "enter" ELSE "done"]
    /\ UNCHANGED <<g, mutex, inResize, resizeCalls>>

\* Fault: a lock that is taken without waiting for its holder.
_Graph_EnterCriticalSection_noWait(t) ==
    /\ pc[t] = "enter"
    /\ mutex' = t
    /\ pc' = [pc EXCEPT ![t] = "recheck"]
    /\ UNCHANGED <<g, seen, inResize, resizeCalls>>

\* pthread_mutex_lock returns once no thread holds the mutex.
_Graph_EnterCriticalSection(t) ==
    /\ pc[t] = "enter"
    /\ mutex = 0
    /\ mutex' = t
    /\ pc' = [pc EXCEPT ![t] = "recheck"]
    /\ UNCHANGED <<g, seen, inResize, resizeCalls>>

\* The second read of n_rows and its test, inside the critical section.
Reader_SecondCheck(t) ==
    /\ pc[t] = "recheck"
    /\ \E v \in RowsRead :
         /\ seen' = [seen EXCEPT ![t] = v]
         /\ pc' = [pc EXCEPT ![t] = IF v # g.node_count THEN "resize" ELSE "leave"]
    /\ UNCHANGED <<g, mutex, inResize, resizeCalls>>

\* GxB_Matrix_resize is called ...
Reader_ResizeCall(t) ==
    /\ pc[t] = "resize"
    /\ inResize' = inResize \cup {t}
    /\ resizeCalls' = Append(resizeCalls, t)
    /\ pc' = [pc EXCEPT ![t] = "resizing"]
    /\ UNCHANGED <<g, seen, mutex>>

\* ... and returns, the matrix resized.
Reader_ResizeReturn(t) ==
    /\ pc[t] = "resizing"
    /\ g' = [g EXCEPT !._relations[1] = GxB_Matrix_resize(@, g.node_count, g.node_count)]
    /\ inResize' = inResize \ {t}
    /\ pc' = [pc EXCEPT ![t] = "leave"]
    /\ UNCHANGED <<seen, mutex, resizeCalls>>

_Graph_LeaveCriticalSection(t) ==
    /\ pc[t] = "leave"
    /\ mutex' = 0
    /\ pc' = [pc EXCEPT ![t] = "done"]
    /\ UNCHANGED <<g, seen, inResize, resizeCalls>>

NextConc ==
    /\ UNCHANGED <<nextUid, edges, synced, last>>
    /\ \E t \in ReaderIds :
         \/ Reader_FirstCheck(t)
         \/ _Graph_EnterCriticalSection(t)
         \/ Reader_SecondCheck(t)
         \/ Reader_ResizeCall(t)
         \/ Reader_ResizeReturn(t)
         \/ _Graph_LeaveCriticalSection(t)

SpecConc == ConcInit /\ [][NextConc]_vars

(* ------------------------------ the claims ------------------------------ *)
\* The matrix an accessor returns for m in graph G.
View(G, m) == _Graph_ResizeMatrix(G, Stored(G, m)).m

\* The payload stored at a live id.
Uid(G, i) == G.nodes[i].uid

\* C1: when an operation has returned, no matrix the graph owns (adjacency,
\* relation or label, as stored) holds an entry whose row or column is
\* >= node_count.
C1_NoEntryBeyondNodeCount ==
    \A m \in Matrices(g) : \A p \in Stored(g, m).e :
        p[1] < g.node_count /\ p[2] < g.node_count

\* C2: whenever relations[r](d,s) = 1, adjacency(d,s) = 1, the matrices being
\* read through their accessors.
C2_RelationImpliesAdjacency ==
    \A r \in RelationIds(g) : \A p \in View(g, REL(r)).e :
        p \in View(g, ADJ).e

\* C3, as claimed: at every method boundary every matrix is square with
\* rows = cols >= node_count.
C3_EveryMatrixCoversNodes ==
    \A m \in Matrices(g) :
        /\ Stored(g, m).nrows = Stored(g, m).ncols
        /\ Stored(g, m).nrows >= g.node_count

\* C3, amended: at every method boundary every matrix is square, and the
\* adjacency matrix has rows = cols >= node_count (a relation or label matrix
\* may have fewer until its accessor is called).
C3_SquareAndAdjacencyCovers ==
    /\ \A m \in Matrices(g) : Stored(g, m).nrows = Stored(g, m).ncols
    /\ g.adjacency_matrix.nrows >= g.node_count

\* C3's case: Graph_CreateNodes has returned and a relation or label matrix
\* has fewer rows than there are nodes.
C3_Witness ==
    /\ last.op = "create_nodes"
    /\ \E m \in Matrices(g) \ {ADJ} : Stored(g, m).nrows < g.node_count

\* C9: adjacency(dest,src) = 1 iff an edge src->dest exists: one made by
\* Graph_ConnectNodes and not deleted since by a Graph_DeleteEdge naming it
\* or with one of its end nodes.
C9_AdjacencyIffEdge ==
    \A s \in NodeIds(g), d \in NodeIds(g) :
        (<<d, s>> \in g.adjacency_matrix.e)
            <=> (\E e \in edges : e[1] = Uid(g, s) /\ e[2] = Uid(g, d))

\* The entries of every matrix as its accessor shows them, the node records
\* and the node count: what a call can be seen to change.
Contents(G) ==
    [node_count |-> G.node_count,
     nodes |-> [i \in NodeIds(G) |-> G.nodes[i]],
     matrices |-> [m \in Matrices(G) |-> View(G, m).e]]

\* C10: Graph_DeleteEdge(src, dest, r) with a relation r changes nothing when
\* relations[r][dest,src] is not set; otherwise it clears that entry, and
\* clears adjacency[dest,src] iff no other relation matrix holds (dest,src).
C10_TypedDelete ==
    [][\A s \in NodeIds(g), d \in NodeIds(g), r \in RelationIds(g) :
          (last'.op = "delete_edge" /\ g' = Graph_DeleteEdge(g, s, d, r)) =>
              LET others == {q \in RelationIds(g) \ {r} :
                                <<d, s>> \in g._relations[q + 1].e}
              IN  IF <<d, s>> \notin g._relations[r + 1].e
                  THEN Contents(g') = Contents(g)
                  ELSE /\ <<d, s>> \notin g'._relations[r + 1].e
                       /\ (<<d, s>> \notin g'.adjacency_matrix.e) <=> (others = {})
      ]_vars

\* C4: an accessor returns a matrix of exactly node_count rows and columns,
\* and issues no resize when node_count has not changed since the accessor of
\* the same matrix last ran.
C4_AccessorDimensions ==
    last.op = "get" =>
        /\ Stored(g, last.m).nrows = g.node_count
        /\ Stored(g, last.m).ncols = g.node_count
        /\ last.was_synced => ~last.issued

\* C4's case: a relation's accessor has returned a second time, some nodes
\* existing, with node_count as it was at the first.
C4_Witness ==
    /\ last.op = "get"
    /\ last.m[1] = "rel"
    /\ last.was_synced
    /\ g.node_count > 0

\* The ids of G that hold the payload a node of G0 had at id i.
PlacesOf(G0, i, G) == {j \in NodeIds(G) : Uid(G, j) = Uid(G0, i)}

\* The ids that outlive Graph_DeleteNodes(IDs), and those among them whose
\* node is at another id in G afterwards.
Survivors(G0, IDs) == NodeIds(G0) \ Range(IDs)
Relocated(G0, IDs, G) == {i \in Survivors(G0, IDs) : PlacesOf(G0, i, G) # {i}}

\* Whether node i bears label l, read through the label's accessor.
HasLabel(G, l, i) == <<i, i>> \in View(G, LAB(l)).e

\* The node record Graph_GetNode hands out for id i.
NodeAt(G, i) == Graph_GetNode(G, i).nodes[i]

\* C6: Graph_DeleteNodes given k ascending distinct ids lowers node_count by
\* k and leaves every id below the smallest of them the same node, with its
\* payload and its labels.
C6_DeleteKeepsLowIds ==
    \A IDs \in DeleteLists(g) :
        LET G1 == Graph_DeleteNodes(g, IDs)
        IN  /\ G1.node_count = g.node_count - Len(IDs)
            /\ \A i \in NodeIds(g) :
                 (IDs # << >> /\ i < IDs[1]) =>
                     /\ i \in NodeIds(G1)
                     /\ NodeAt(G1, i) = NodeAt(g, i)
                     /\ \A l \in LabelIds(g) : HasLabel(G1, l, i) = HasLabel(g, l, i)

\* C6's case: Graph_DeleteNodes has returned, having moved a node, and a
\* labelled node lies below the smallest id it was given.
C6_Witness ==
    /\ last.op = "delete_nodes"
    /\ last.moved >= 1
    /\ \E i \in NodeIds(g), l \in LabelIds(g) : i < last.first /\ HasLabel(g, l, i)

\* The edges of a matrix into and out of id i, the other end renamed by f.
ColumnOf(E, i) == {p[1] : p \in {q \in E : q[2] = i}}
RowOf(E, i) == {p[2] : p \in {q \in E : q[1] = i}}

\* C7: after Graph_DeleteNodes, in the adjacency matrix and every relation
\* matrix as the accessors return them, column dest and row dest of a node
\* moved from donor to dest hold exactly the edges it had at donor to and
\* from surviving nodes, each end at the id the node now has.
C7_RelocatedEdges ==
    \A IDs \in DeleteLists(g) :
        LET G1 == Graph_DeleteNodes(g, IDs)
            S == Survivors(g, IDs)
        IN  /\ \A i \in S : Cardinality(PlacesOf(g, i, G1)) = 1
            /\ \A donor \in Relocated(g, IDs, G1), m \in {ADJ} \cup {REL(r) : r \in RelationIds(g)} :
                 LET dest == CHOOSE j \in PlacesOf(g, donor, G1) : TRUE
                     before == View(g, m).e
                     after == View(G1, m).e
                     now(X) == UNION {PlacesOf(g, x, G1) : x \in X \cap S}
                 IN  /\ ColumnOf(after, dest) = now(ColumnOf(before, donor))
                     /\ RowOf(after, dest) = now(RowOf(before, donor))

\* C7's case: Graph_DeleteNodes has returned, having moved two nodes, with an
\* edge of a relation between the two.
C7_Witness ==
    /\ last.op = "delete_nodes"
    /\ last.moved = 2
    /\ \E r \in RelationIds(g) :
         \E p \in View(g, REL(r)).e : p[1] # p[2] /\ p[1] < 2 /\ p[2] < 2

\* C8: after Graph_DeleteNodes, for a node moved from donor to dest and every
\* label l, labels[l][dest,dest] as the accessor returns it is what
\* labels[l][donor,donor] was before.
C8_RelocatedLabels ==
    \A IDs \in DeleteLists(g) :
        LET G1 == Graph_DeleteNodes(g, IDs)
        IN  \A donor \in Relocated(g, IDs, G1), l \in LabelIds(g) :
                \A dest \in PlacesOf(g, donor, G1) :
                    HasLabel(G1, l, dest) = HasLabel(g, l, donor)

\* C8's case: Graph_DeleteNodes has returned, having moved a node into the
\* smallest id it was given, and that id bears one label and lacks another.
C8_Witness ==
    /\ last.op = "delete_nodes"
    /\ last.moved >= 1
    /\ \E l1 \in LabelIds(g), l2 \in LabelIds(g) :
         HasLabel(g, l1, last.first) /\ ~HasLabel(g, l2, last.first)

\* C5: of the reader threads that call the accessor of one matrix whose rows
\* differ from node_count, exactly one calls the resize, no two are inside it
\* at once, and every other returns having read node_count rows.
C5_OneResize ==
    /\ Cardinality(inResize) <= 1
    /\ Len(resizeCalls) <= 1
    /\ (\A t \in ReaderIds : pc[t] = "done") => Len(resizeCalls) = 1
    /\ \A t \in ReaderIds :
         (pc[t] = "done" /\ t \notin Range(resizeCalls)) => seen[t] = g.node_count

\* C5's case: one thread has resized the matrix and returned, and another,
\* which read the old dimension first, has found the new one inside the
\* critical section.
C5_Witness ==
    \E t \in ReaderIds, u \in ReaderIds :
        /\ pc[t] = "done" /\ resizeCalls = <<t>>
        /\ pc[u] = "leave" /\ u # t

\* C11: when Graph_DeleteEdge(src, dest, GRAPH_NO_RELATION) has returned,
\* adjacency[dest,src] and relations[r][dest,src] of every relation r are
\* unset, the matrices being read through their accessors.
C11_UntypedDelete ==
    [][\A s \in NodeIds(g), d \in NodeIds(g) :
          (last'.op = "delete_edge"
             /\ g' = Graph_DeleteEdge(g, s, d, GRAPH_NO_RELATION)) =>
              /\ <<d, s>> \notin View(g', ADJ).e
              /\ \A r \in RelationIds(g') : <<d, s>> \notin View(g', REL(r)).e
      ]_vars

\* The entries of the adjacency matrix and of every relation matrix, as the
\* accessors show them.
EdgeMatrices(G) ==
    [m \in {ADJ} \cup {REL(r) : r \in RelationIds(G)} |-> View(G, m).e]

\* Graph_ConnectNodes of the one triple (s, d, r), then Graph_DeleteEdge(s, d, r).
ConnectThenDelete(G, s, d, r) ==
    Graph_DeleteEdge(Graph_ConnectNodes(G, <<<<s, d, r>>>>), s, d, r)

\* No matrix shows an edge s->d.
NoEdge(G, s, d) ==
    \A m \in DOMAIN EdgeMatrices(G) : <<d, s>> \notin EdgeMatrices(G)[m]

C13_DeleteEdgeFrame ==
    \A s \in NodeIds(g), d \in NodeIds(g), r \in {GRAPH_NO_RELATION} \cup RelationIds(g) :
        LET G1 == Graph_DeleteEdge(g, s, d, r)
        IN  /\ \A m \in DOMAIN EdgeMatrices(g) :
                 EdgeMatrices(G1)[m] \ {<<d, s>>} = EdgeMatrices(g)[m] \ {<<d, s>>}
            /\ \A l \in LabelIds(g) : View(G1, LAB(l)).e = View(g, LAB(l)).e
            /\ LabelIds(G1) = LabelIds(g) /\ RelationIds(G1) = RelationIds(g)
            /\ G1.nodes = g.nodes
            /\ G1.node_count = g.node_count

\* C13's case: Graph_DeleteEdge has returned, having cleared an entry, and
\* another entry of the same column and one of the same row are still set
\* in the adjacency matrix and in a relation matrix, a label being borne.
C13_Witness ==
    /\ last.op = "delete_edge"
    /\ \E s \in NodeIds(g), d \in NodeIds(g) :
         /\ NoEdge(g, s, d)
         /\ \E m \in DOMAIN EdgeMatrices(g) \ {ADJ} :
              /\ \E x \in NodeIds(g) : x # d /\ <<x, s>> \in EdgeMatrices(g)[m]
              /\ \E y \in NodeIds(g) : y # s /\ <<d, y>> \in EdgeMatrices(g)[m]
    /\ \E l \in LabelIds(g), i \in NodeIds(g) : HasLabel(g, l, i)

\* C14: for every hint_n > 0, Graph_New(hint_n) returns a graph of no nodes
\* whose blocks hold at least hint_n slots.
C14_NewCoversHint ==
    last.op = "new" =>
        /\ g.node_count = 0
        /\ g.node_cap >= last.hint
        /\ g.block_count * NODEBLOCK_CAP >= last.hint

\* The storage of G is whole: node_cap is block_count blocks of
\* NODEBLOCK_CAP slots, no fewer than node_count, every id below node_cap has
\* a slot, and the block of index node_count / NODEBLOCK_CAP is allocated.
StorageWhole(G) ==
    /\ G.node_cap = G.block_count * NODEBLOCK_CAP
    /\ G.node_cap >= G.node_count
    /\ DOMAIN G.nodes = 0..(G.node_cap - 1)
    /\ \A i \in NodeIds(G) : ~Graph_GetNode_isNull(G, i)
    /\ GRAPH_NODE_ID_TO_BLOCK_INDEX(G.node_count) < G.block_count

\* C15: after any sequence of Graph_New, Graph_CreateNodes and
\* Graph_DeleteNodes the storage is whole, and it still is, with room for
\* the old node_count + n, after any two further Graph_CreateNodes.
C15_Capacity ==
    /\ StorageWhole(g)
    /\ \A n1 \in 0..GrowBatch, n2 \in 0..GrowBatch :
         LET G1 == Graph_CreateNodes(g, n1, FALSE, << >>, 1)
             G2 == Graph_CreateNodes(G1, n2, FALSE, << >>, 1)
         IN  /\ StorageWhole(G1) /\ G1.node_cap >= g.node_count + n1
             /\ StorageWhole(G2) /\ G2.node_cap >= G1.node_count + n2

\* C15's case: Graph_CreateNodes has returned, having added blocks, and
\* the count of nodes is a multiple of NODEBLOCK_CAP.
C15_Witness ==
    /\ last.op = "create_nodes"
    /\ g.block_count > 1
    /\ g.node_count > 0
    /\ g.node_count % NODEBLOCK_CAP = 0

\* C16: Graph_DeleteNodes given a list that is not strictly ascending aborts:
\* it never returns, and so never returns with the graph changed.
C16_UnsortedDeleteAborts ==
    last.op # "delete_nodes_unsorted"

\* C17: Graph_ConnectNodes given a triple with src or dest >= node_count, or a
\* relation that is neither GRAPH_NO_RELATION nor a relation added, aborts: it
\* never returns.
C17_InvalidConnectAborts ==
    last.op # "connect_nodes_invalid"

\* Scenario S4 has run: Graph_New(16), Graph_CreateNodes(5),
\* Graph_ConnectNodes([(0,4,NO_RELATION),(4,2,NO_RELATION)]), Graph_DeleteNodes([1,2]).
S4Ran ==
    /\ last.op = "scenario_delete"
    /\ last.n = 5
    /\ last.connections = <<<<0, 4, GRAPH_NO_RELATION>>, <<4, 2, GRAPH_NO_RELATION>>>>
    /\ last.IDs = <<1, 2>>

\* C18, as claimed: after S4 node_count is 3, the node first at id 4 is at id
\* 2, the node first at id 3 is at id 1, node 0 is as it was and the
\* adjacency matrix holds exactly (2,0).  (Node i was created with payload i + 1.)
C18_S4AsClaimed ==
    S4Ran =>
        /\ g.node_count = 3
        /\ Uid(g, 2) = 5 /\ Uid(g, 1) = 4 /\ Uid(g, 0) = 1
        /\ View(g, ADJ).e = {<<2, 0>>}

\* C18, amended: after S4 node_count is 3, the node first at id 4 is at id 1,
\* the node first at id 3 is at id 2, node 0 is as it was and the adjacency
\* matrix holds exactly (1,0).
C18_S4AsComputed ==
    S4Ran =>
        /\ g.node_count = 3
        /\ Uid(g, 1) = 5 /\ Uid(g, 2) = 4 /\ Uid(g, 0) = 1
        /\ NodeAt(g, 0).id = 0 /\ NodeAt(g, 1).id = 1 /\ NodeAt(g, 2).id = 2
        /\ View(g, ADJ).e = {<<1, 0>>}

\* C18's case: scenario S4 has run to its end.
C18_Witness ==
    S4Ran /\ g.node_count = 3

\* C19: every id Graph_CreateNodes(n, labels) hands out is fresh: right after
\* the call, as the accessors show them, row i and column i of the adjacency
\* matrix and of every relation matrix are empty, and labels[l][i,i] is set
\* only for the label l given for that node.
C19_FreshIds ==
    [][\A n \in 0..MaxBatch, hasLabels \in BOOLEAN :
          \A labels \in IF hasLabels
                        THEN [1..n -> {GRAPH_NO_LABEL} \cup LabelIds(g)]
                        ELSE {<< >>} :
              (last'.op = "create_nodes"
                 /\ g' = Graph_CreateNodes(g, n, hasLabels, labels, nextUid + 1)) =>
                  \A i \in NodeIds(g') \ NodeIds(g) :
                      /\ \A m \in DOMAIN EdgeMatrices(g') :
                           \A p \in EdgeMatrices(g')[m] : p[1] # i /\ p[2] # i
                      /\ \A l \in LabelIds(g') :
                           HasLabel(g', l, i) =>
                               (hasLabels /\ labels[i - g.node_count + 1] = l)
      ]_vars

\* C20: for every strictly ascending list D of K >= 1 distinct live ids, with
\* N = node_count, the outer loop of Graph_DeleteNodes makes exactly as many
\* replacements as D has ids below N-K; the j-th moves the j-th highest
\* surviving id into the j-th lowest id of D; every donor is a surviving id in
\* N-K..N-1, every hole an id of D below N-K; and IDs is read only at
\* indices 0..K-1.
C20_SwapDownLoop ==
    \A IDs \in DeleteLists(g) :
        IDs # << >> =>
            LET N == g.node_count
                K == Len(IDs)
                D == Range(IDs)
                S == DeleteNodes_run(g, IDs).S
            IN  /\ Len(S.moves) = Cardinality({d \in D : d < N - K})
                /\ \A j \in 1..Len(S.moves) :
                     LET donor == S.moves[j][1]
                         hole == S.moves[j][2]
                     IN  /\ donor \in Survivors(g, IDs)
                         /\ donor \in (N - K)..(N - 1)
                         /\ Cardinality({s \in Survivors(g, IDs) : s > donor}) = j - 1
                         /\ hole \in D
                         /\ hole < N - K
                         /\ Cardinality({d \in D : d < hole}) = j - 1
                /\ S.reads \subseteq 0..(K - 1)

\* C20's case: Graph_DeleteNodes has returned, having made two replacements.
C20_Witness ==
    /\ last.op = "delete_nodes"
    /\ last.moved = 2

\* The ids Graph_DeleteNodes(IDs) neither deletes nor fills: those below the
\* new node_count that are not in IDs.
Unmoved(G0, IDs) == {i \in NodeIds(G0) \ Range(IDs) : i < G0.node_count - Len(IDs)}

\* C21: Graph_DeleteNodes(IDs) leaves every surviving node that is not
\* relocated as it was: the same id, the same node record, the same labels,
\* and between any two such nodes the same entries in the adjacency matrix and
\* in every relation matrix, as the accessors return them.
C21_DeleteFrame ==
    \A IDs \in DeleteLists(g) :
        LET G1 == Graph_DeleteNodes(g, IDs)
            kept == Unmoved(g, IDs)
        IN  /\ \A i \in kept :
                 /\ i \in NodeIds(G1)
                 /\ G1.nodes[i] = g.nodes[i]
                 /\ NodeAt(G1, i) = NodeAt(g, i)
                 /\ \A l \in LabelIds(g) : HasLabel(G1, l, i) = HasLabel(g, l, i)
            /\ \A m \in DOMAIN EdgeMatrices(g) :
                 \A u \in kept, v \in kept :
                     (<<v, u>> \in EdgeMatrices(G1)[m]) = (<<v, u>> \in EdgeMatrices(g)[m])

\* C21's case: Graph_DeleteNodes has returned, having deleted id 0 and filled
\* it with one node; the ids above 0 are nodes it did not move, two of them
\* joined by an edge and one bearing a label.
C21_Witness ==
    /\ last.op = "delete_nodes"
    /\ last.first = 0
    /\ last.moved = 1
    /\ \E u \in NodeIds(g) \ {0}, v \in NodeIds(g) \ {0} :
         /\ u # v
         /\ <<v, u>> \in View(g, ADJ).e
         /\ \E l \in LabelIds(g) : HasLabel(g, l, u)

====
